---- MODULE Spec2Model ----
(***************************************************************************)
(* Deet: a ptrace based debugger.  The model covers the session loop of    *)
(* src/src/debugger.rs (Debugger::run), the inferior control of            *)
(* src/src/inferior.rs (new, kill, wait, continue_run, step_over,          *)
(* write_byte) and the two line queries of src/src/dwarf_data.rs, run      *)
(* against a small traced child whose text, instruction boundaries and     *)
(* line table are fixed below.                                             *)
(***************************************************************************)
EXTENDS Integers, Sequences, FiniteSets, TLC

\* size_of::<usize>() on x86_64, the width of one ptrace word in bytes
WordSize == 8
\* the trap opcode the debugger writes (0xcc)
TRAP == 204
\* the placeholder saved byte of a breakpoint added with no inferior
SENTINEL == 0
\* the byte mask 0xff of write_byte
ByteMask == 255

\* the signals that reach the child from outside during one session
MaxSignals == 1

\* the calls made in a row when a function is exercised on its own
MaxCalls == 2
\* the rows of a line table, and its largest line number
MaxRows == 2
MaxLine == 2
\* the frames the child's stack holds when the backtrace is exercised on
\* its own
MaxFrames == 2

Byte == 0..255
Bits == 0..7

(***************************************************************************)
(* Bit operations on one byte and on one 8-byte little-endian word.  A     *)
(* word is a function from the byte offset 0..7 to the byte stored there,  *)
(* so that u64 shifts by 8*k are shifts by k bytes.                        *)
(***************************************************************************)
RECURSIVE ByteAndFrom(_, _, _)
ByteAndFrom(x, y, n) ==
  IF n = 0 THEN 0
  ELSE (IF x % 2 = 1 /\ y % 2 = 1 THEN 1 ELSE 0)
       + 2 * ByteAndFrom(x \div 2, y \div 2, n - 1)

\* x & 0xff = x and x & 0 = 0 need no recursion
ByteAnd(x, y) ==
  IF y = ByteMask THEN x ELSE IF y = 0 THEN 0 ELSE ByteAndFrom(x, y, Cardinality(Bits))

RECURSIVE ByteOrFrom(_, _, _)
ByteOrFrom(x, y, n) ==
  IF n = 0 THEN 0
  ELSE (IF x % 2 = 1 \/ y % 2 = 1 THEN 1 ELSE 0)
       + 2 * ByteOrFrom(x \div 2, y \div 2, n - 1)

\* x | 0 = x and 0 | y = y need no recursion
ByteOr(x, y) ==
  IF y = 0 THEN x ELSE IF x = 0 THEN y ELSE ByteOrFrom(x, y, Cardinality(Bits))

ByteNot(x) == ByteMask - x

Offsets == 0..(WordSize - 1)

\* `v as u64`: the value in the lowest byte, zero above
WordOfByte(v) == [i \in Offsets |-> IF i = 0 THEN v ELSE 0]

\* word << 8 * k
WordShl(w, k) == [i \in Offsets |-> IF i >= k THEN w[i - k] ELSE 0]

\* word >> 8 * k
WordShr(w, k) == [i \in Offsets |-> IF i + k < WordSize THEN w[i + k] ELSE 0]

WordAnd(w1, w2) == [i \in Offsets |-> ByteAnd(w1[i], w2[i])]

WordOr(w1, w2) == [i \in Offsets |-> ByteOr(w1[i], w2[i])]

WordNot(w) == [i \in Offsets |-> ByteNot(w[i])]

\* `word as u8`
WordLowByte(w) == w[0]

\* addr & (-(size_of::<usize>() as isize) as usize)
align_addr_to_word(addr) == addr - (addr % WordSize)

(***************************************************************************)
(* The traced target.  Its text occupies the two words at 8 and 16; every  *)
(* other word is unmapped, so a ptrace read of it fails.  insns lists the  *)
(* instruction boundaries: the start address, the length in bytes and the  *)
(* successors (exits marks the exit system call).  lines is the line table *)
(* of the first compilation unit, in table order.                          *)
(***************************************************************************)
Target ==
  [ entry |-> 9,
    text  |-> 8..23,
    insns |-> { [at |-> 8,  len |-> 1, next |-> {9},      exits |-> FALSE],
                [at |-> 9,  len |-> 1, next |-> {10},     exits |-> FALSE],
                [at |-> 10, len |-> 1, next |-> {11},     exits |-> FALSE],
                [at |-> 11, len |-> 2, next |-> {13},     exits |-> FALSE],
                [at |-> 13, len |-> 1, next |-> {14},     exits |-> FALSE],
                [at |-> 14, len |-> 2, next |-> {13, 16}, exits |-> FALSE],
                [at |-> 16, len |-> 1, next |-> {},       exits |-> TRUE] },
    lines |-> << [number |-> 1, address |-> 10],
                 [number |-> 2, address |-> 13],
                 [number |-> 3, address |-> 14],
                 [number |-> 4, address |-> 16] >>,
    line_end  |-> 17,
    functions |-> << [name |-> <<"m", "a", "i", "n">>, address |-> 10,
                       text_length |-> 7] >> ]

\* the original opcode bytes of the text: never the trap byte, never zero
OrigText == [a \in Target.text |-> 16 + a]

TextAddr == Target.text

Mapped(base) == base \in { align_addr_to_word(a) : a \in TextAddr }

ReadWord(m, base) == [i \in Offsets |-> m[base + i]]

StoreWord(m, base, w) ==
  [a \in DOMAIN m |-> IF a >= base /\ a < base + WordSize THEN w[a - base] ELSE m[a]]

\* mutant: the old byte is not masked out before the new one is or-ed in
write_byte_unmasked(m, stopped, addr, val) ==
  LET aligned_addr == align_addr_to_word(addr)
      byte_offset  == addr - aligned_addr
  IN  IF ~stopped \/ ~Mapped(aligned_addr)
      THEN [ok |-> FALSE, mem |-> m, ret |-> 0]
      ELSE LET word         == ReadWord(m, aligned_addr)
               orig_byte    == WordAnd(WordShr(word, byte_offset), WordOfByte(ByteMask))
               updated_word == WordOr(word, WordShl(WordOfByte(val), byte_offset))
           IN  [ok  |-> TRUE,
                mem |-> StoreWord(m, aligned_addr, updated_word),
                ret |-> WordLowByte(orig_byte)]

\* mutant: the shifted byte alone is written back, not or-ed into the word
write_byte_clobber(m, stopped, addr, val) ==
  LET aligned_addr == align_addr_to_word(addr)
      byte_offset  == addr - aligned_addr
  IN  IF ~stopped \/ ~Mapped(aligned_addr)
      THEN [ok |-> FALSE, mem |-> m, ret |-> 0]
      ELSE LET word         == ReadWord(m, aligned_addr)
               orig_byte    == WordAnd(WordShr(word, byte_offset), WordOfByte(ByteMask))
               updated_word == WordShl(WordOfByte(val), byte_offset)
           IN  [ok  |-> TRUE,
                mem |-> StoreWord(m, aligned_addr, updated_word),
                ret |-> WordLowByte(orig_byte)]

(***************************************************************************)
(* Inferior::write_byte on child memory m: the result carries ok (both     *)
(* ptrace calls succeeded), the memory afterwards and the returned byte.   *)
(* stopped tells whether the child is in a ptrace stop: ptrace refuses     *)
(* (ESRCH) any request on a tracee that is not.                            *)
(***************************************************************************)
write_byte(m, stopped, addr, val) ==
  LET aligned_addr == align_addr_to_word(addr)
      byte_offset  == addr - aligned_addr
  IN  IF ~stopped \/ ~Mapped(aligned_addr)
      THEN [ok |-> FALSE, mem |-> m, ret |-> 0]
      ELSE LET word         == ReadWord(m, aligned_addr)
               orig_byte    == WordAnd(WordShr(word, byte_offset), WordOfByte(ByteMask))
               masked_word  == WordAnd(word, WordNot(WordShl(WordOfByte(ByteMask), byte_offset)))
               updated_word == WordOr(masked_word, WordShl(WordOfByte(val), byte_offset))
           IN  [ok  |-> TRUE,
                mem |-> StoreWord(m, aligned_addr, updated_word),
                ret |-> WordLowByte(orig_byte)]

(***************************************************************************)
(* DwarfData queries.                                                      *)
(***************************************************************************)
\* mutant: the last line at or after line_number, not the first
get_addr_for_line_last(target_lines, line_number) ==
  LET hits == { i \in 1..Len(target_lines) : target_lines[i].number >= line_number }
  IN  IF hits = {} THEN [found |-> FALSE, address |-> 0]
      ELSE LET last == CHOOSE i \in hits : \A j \in hits : i >= j
           IN  [found |-> TRUE, address |-> target_lines[last].address]

\* target_file.lines.iter().find(|line| line.number >= line_number)?.address
\* on the lines of the first compilation unit, in table order:
\* [found |-> FALSE] stands for None.
get_addr_for_line_in(target_lines, line_number) ==
  LET hits == { i \in 1..Len(target_lines) : target_lines[i].number >= line_number }
  IN  IF hits = {} THEN [found |-> FALSE, address |-> 0]
      ELSE LET first == CHOOSE i \in hits : \A j \in hits : i <= j
           IN  [found |-> TRUE, address |-> target_lines[first].address]

\* mutant: with no file named, every compilation unit is searched in turn
RECURSIVE get_addr_for_line_any_file(_, _)
get_addr_for_line_any_file(target_files, line_number) ==
  IF target_files = << >> THEN [found |-> FALSE, address |-> 0]
  ELSE LET r == get_addr_for_line_in(Head(target_files).lines, line_number)
       IN  IF r.found THEN r
           ELSE get_addr_for_line_any_file(Tail(target_files), line_number)

\* get_addr_for_line(None, line_number): self.files.get(0)? is the first
\* compilation unit, and None where there is none
get_addr_for_line_files(target_files, line_number) ==
  IF Len(target_files) = 0 THEN [found |-> FALSE, address |-> 0]
  ELSE get_addr_for_line_in(target_files[1].lines, line_number)

\* DwarfData.files of the session's target: one compilation unit
TargetFiles == << [lines |-> Target.lines] >>

\* get_addr_for_line(None, line_number) on the target of the session
get_addr_for_line(line_number) == get_addr_for_line_files(TargetFiles, line_number)

\* addr2line's find_location: the row of the line program whose address
\* range holds curr_addr (a row runs to the next row, the last one to the
\* end of the sequence).
get_line_from_addr(curr_addr) ==
  LET rows  == Target.lines
      hits  == { i \in 1..Len(rows) :
                   /\ rows[i].address <= curr_addr
                   /\ curr_addr < (IF i < Len(rows) THEN rows[i + 1].address
                                   ELSE Target.line_end) }
  IN  IF hits = {} THEN [found |-> FALSE, number |-> 0]
      ELSE [found |-> TRUE, number |-> rows[CHOOSE i \in hits : TRUE].number]

\* file.functions.iter().find(|func| func.name == func_name) over all files
get_addr_for_function(func_name) ==
  LET fs   == Target.functions
      hits == { i \in 1..Len(fs) : fs[i].name = func_name }
  IN  IF hits = {} THEN [found |-> FALSE, address |-> 0]
      ELSE [found |-> TRUE,
            address |-> fs[CHOOSE i \in hits : \A j \in hits : i <= j].address]

\* addr2line's find_frames over the functions fs: the function whose text
\* holds curr_addr
get_function_from_addr_in(fs, curr_addr) ==
  LET hits == { i \in 1..Len(fs) :
                  /\ fs[i].address <= curr_addr
                  /\ curr_addr < fs[i].address + fs[i].text_length }
  IN  IF hits = {} THEN [found |-> FALSE, name |-> << >>]
      ELSE [found |-> TRUE, name |-> fs[CHOOSE i \in hits : TRUE].name]

\* get_function_from_addr on the target of the session
get_function_from_addr(curr_addr) ==
  get_function_from_addr_in(Target.functions, curr_addr)

(***************************************************************************)
(* Break locations are the argument token as typed, a sequence of           *)
(* characters; from_str_radix turns digits into a number or fails.         *)
(***************************************************************************)
HexDigits ==
  << "0", "1", "2", "3", "4", "5", "6", "7", "8", "9", "a", "b", "c", "d", "e", "f" >>

DigitValue(c) ==
  IF \E i \in 1..Len(HexDigits) : HexDigits[i] = c
  THEN (CHOOSE i \in 1..Len(HexDigits) : HexDigits[i] = c) - 1
  ELSE -1

RECURSIVE RadixValue(_, _, _)
RadixValue(str, radix, acc) ==
  IF str = << >> THEN acc
  ELSE RadixValue(Tail(str), radix, acc * radix + DigitValue(Head(str)))

\* usize::from_str_radix(str, radix).ok()
from_str_radix(str, radix) ==
  IF str # << >> /\ \A i \in 1..Len(str) :
                      DigitValue(str[i]) >= 0 /\ DigitValue(str[i]) < radix
  THEN [found |-> TRUE, value |-> RadixValue(str, radix, 0)]
  ELSE [found |-> FALSE, value |-> 0]

\* Debugger::parse_address: an optional 0x prefix, then hexadecimal
parse_address(addr) ==
  LET addr_without_0x ==
        IF Len(addr) >= 2 /\ addr[1] = "0" /\ addr[2] \in {"x", "X"}
        THEN SubSeq(addr, 3, Len(addr))
        ELSE addr
  IN  from_str_radix(addr_without_0x, 16)

\* The resolution of the Breakpoint arm: the address, or the message printed
ResolveLocation(localtion) ==
  IF localtion # << >> /\ Head(localtion) = "*"
  THEN LET a == parse_address(Tail(localtion))
       IN  IF a.found THEN [ok |-> TRUE, addr |-> a.value, msg |-> "none"]
           ELSE [ok |-> FALSE, addr |-> 0, msg |-> "Invalid address"]
  ELSE LET l == from_str_radix(localtion, 10)
       IN  IF l.found
           THEN LET a == get_addr_for_line(l.value)
                IN  IF a.found THEN [ok |-> TRUE, addr |-> a.address, msg |-> "none"]
                    ELSE [ok |-> FALSE, addr |-> 0, msg |-> "Invalid line number"]
           ELSE LET f == get_addr_for_function(localtion)
                IN  IF f.found THEN [ok |-> TRUE, addr |-> f.address, msg |-> "none"]
                    ELSE [ok |-> FALSE, addr |-> 0, msg |-> "Usage"]

\* The break arguments the session is driven with
BreakLocations ==
  { << "*", "0", "x", "8" >>,       \* the byte before the entry point
    << "m", "a", "i", "n" >>,       \* a function, at 10
    << "2" >>,                      \* a line, at 13
    << "*", "1", "8" >>,            \* 0x18: outside the text
    << "*", "z" >>,                 \* not hexadecimal
    << "9" >>,                      \* past the last line
    << "f", "o", "o" >> }           \* no such function

(***************************************************************************)
(* DebuggerCommand::from_tokens on the words of a non-empty command line:  *)
(* the command, "None" for a word that is no command, and "Panic" where     *)
(* tokens[1] is read from a line of one word.                              *)
(***************************************************************************)
from_tokens(tokens) ==
  LET word == tokens[1]
  IN  CASE word \in {"q", "quit", "exit"}          -> [kind |-> "Quit"]
        [] word \in {"s", "step", "next"}          -> [kind |-> "Step"]
        [] word \in {"c", "cont", "continue"}      -> [kind |-> "Continue"]
        [] word \in {"bt", "back", "backtrace"}    -> [kind |-> "Backtrace"]
        [] word \in {"b", "break", "breakpoint"}   ->
             IF Len(tokens) < 2 THEN [kind |-> "Panic"] ELSE [kind |-> "Breakpoint"]
        [] word \in {"r", "run"}                   -> [kind |-> "Run"]
        [] OTHER                                   -> [kind |-> "None"]

\* command lines that name no location, or no command
MalformedLines == { << "break" >>, << "b" >>, << "breakpoint" >>, << "help" >> }

(***************************************************************************)
(* State.                                                                  *)
(*   pc, cmd            where the debugger is, and the command it serves   *)
(*   inferior           Debugger.inferior is Some                          *)
(*   breakpoints        Debugger.breakpoints: address -> saved byte        *)
(*   step_over_points   Debugger.step_over_points: address -> saved byte   *)
(*   rip, line_number, status, took                                        *)
(*                      locals of continue_run / step_over: regs.rip as    *)
(*                      read, line_object.number, the last wait result,    *)
(*                      the branch taken ("bp", "sp" or "none")            *)
(*   cstate, cmode, csig, ip, mem, observed                                *)
(*                      the child: its process state, how it was resumed,  *)
(*                      the signal of its stop, its instruction pointer,   *)
(*                      its text, whether wait has reported its stop       *)
(*   unwaited           the child was resumed and no wait has followed     *)
(*   lastExec           the instruction the child executed last            *)
(*   signals            how many signals have reached the child from       *)
(*                      outside                                            *)
(*   calls              the write_byte calls made on a stopped child when  *)
(*                      write_byte is exercised on its own (WriteByteSpec) *)
(*                      and the get_addr_for_line calls of LineTableSpec    *)
(*   files              DwarfData.files: the compilation units, each with  *)
(*                      its File.lines                                     *)
(*   fp, stack          the child's frame pointer register and the words   *)
(*                      of its stack                                       *)
(*   rbp, frames        print_backtrace: its local rbp (rip is shared with *)
(*                      the other operations) and the frame lines printed  *)
(***************************************************************************)
VARIABLES pc, cmd, inferior, breakpoints, step_over_points,
          rip, line_number, status, took,
          cstate, cmode, csig, ip, mem, observed,
          unwaited, lastExec, signals, calls, files,
          fp, rbp, stack, frames

vars == << pc, cmd, inferior, breakpoints, step_over_points,
           rip, line_number, status, took,
           cstate, cmode, csig, ip, mem, observed,
           unwaited, lastExec, signals, calls, files,
           fp, rbp, stack, frames >>

registries == << breakpoints, step_over_points >>
walk       == << fp, rbp, stack, frames >>
locals     == << rip, line_number, status, took, calls, files, walk >>
child      == << cstate, cmode, csig, ip, mem, observed, lastExec, signals >>

NoStatus == [kind |-> "None", sig |-> "none", ip |-> 0]
NoExec   == [addr |-> 0, trapped |-> FALSE, mode |-> "none"]
Empty    == << >>

\* HashMap::insert
Insert(map, k, v) == [a \in (DOMAIN map) \cup {k} |-> IF a = k THEN v ELSE map[a]]

Stopped == cstate = "stopped"

\* Debugger::new: no inferior, both registries empty
Init ==
  /\ pc = "prompt"
  /\ cmd = "none"
  /\ inferior = FALSE
  /\ breakpoints = Empty
  /\ step_over_points = Empty
  /\ rip = 0
  /\ line_number = 0
  /\ status = NoStatus
  /\ took = "none"
  /\ cstate = "none"
  /\ cmode = "none"
  /\ csig = "none"
  /\ ip = 0
  /\ mem = OrigText
  /\ observed = FALSE
  /\ unwaited = FALSE
  /\ lastExec = NoExec
  /\ signals = 0
  /\ calls = << >>
  /\ files = TargetFiles
  /\ fp = 0
  /\ rbp = 0
  /\ stack = << >>
  /\ frames = << >>

(***************************************************************************)
(* The child.  While it runs it executes one instruction at a time.  The   *)
(* trap byte raises SIGTRAP with ip one past it.  An intact instruction    *)
(* moves ip to a successor or exits; resumed by a single-step the child    *)
(* stops after it.  An ip that is not at an intact instruction faults.     *)
(***************************************************************************)
\* the session is on: the debugger has neither quit nor panicked
Alive == pc \notin {"quit", "panicked"}

InsnsAt(a) == { i \in Target.insns : i.at = a }

Intact(m, i) == \A a \in i.at..(i.at + i.len - 1) : m[a] = OrigText[a]

ChildTrap ==
  /\ Alive
  /\ cstate = "running"
  /\ mem[ip] = TRAP
  /\ cstate' = "stopped"
  /\ csig' = "SIGTRAP"
  /\ ip' = ip + 1
  /\ observed' = FALSE
  /\ lastExec' = [addr |-> ip, trapped |-> TRUE, mode |-> cmode]
  /\ UNCHANGED << pc, cmd, inferior, registries, locals, cmode, mem, unwaited,
                  signals >>

ChildExec ==
  /\ Alive
  /\ cstate = "running"
  /\ mem[ip] # TRAP
  /\ \E i \in InsnsAt(ip) :
       /\ Intact(mem, i)
       /\ ~i.exits
       /\ \E n \in i.next :
            /\ ip' = n
            /\ cstate' = IF cmode = "step" THEN "stopped" ELSE "running"
            /\ csig' = IF cmode = "step" THEN "SIGTRAP" ELSE csig
            /\ observed' = FALSE
  /\ lastExec' = [addr |-> ip, trapped |-> FALSE, mode |-> cmode]
  /\ UNCHANGED << pc, cmd, inferior, registries, locals, cmode, mem, unwaited,
                  signals >>

ChildExit ==
  /\ Alive
  /\ cstate = "running"
  /\ mem[ip] # TRAP
  /\ \E i \in InsnsAt(ip) : Intact(mem, i) /\ i.exits
  /\ cstate' = "exited"
  /\ lastExec' = [addr |-> ip, trapped |-> FALSE, mode |-> cmode]
  /\ UNCHANGED << pc, cmd, inferior, registries, locals, cmode, csig, ip, mem,
                  observed, unwaited, signals >>

\* ip is inside an instruction, or the instruction's bytes are damaged
ChildFault ==
  /\ Alive
  /\ cstate = "running"
  /\ mem[ip] # TRAP
  /\ \A i \in InsnsAt(ip) : ~Intact(mem, i)
  /\ cstate' = "stopped"
  /\ csig' = "SIGSEGV"
  /\ observed' = FALSE
  /\ UNCHANGED << pc, cmd, inferior, registries, locals, cmode, ip, mem,
                  unwaited, lastExec, signals >>

\* a signal from outside (the terminal's interrupt) stops the traced child
ChildSignal ==
  /\ Alive
  /\ cstate = "running"
  /\ cmode = "cont"
  /\ signals < MaxSignals
  /\ signals' = signals + 1
  /\ cstate' = "stopped"
  /\ csig' = "SIGINT"
  /\ observed' = FALSE
  /\ UNCHANGED << pc, cmd, inferior, registries, locals, cmode, ip, mem,
                  unwaited, lastExec >>

\* SIGKILL from outside ends the child whatever the tracer does
ChildKilled ==
  /\ Alive
  /\ cstate = "running"
  /\ signals < MaxSignals
  /\ signals' = signals + 1
  /\ cstate' = "killed"
  /\ UNCHANGED << pc, cmd, inferior, registries, locals, cmode, csig, ip, mem,
                  observed, unwaited, lastExec >>

(***************************************************************************)
(* Inferior::wait: blocks until the child has a stop or an end to report.  *)
(***************************************************************************)
Waitable == (cstate = "stopped" /\ ~observed) \/ cstate \in {"exited", "killed"}

WaitStatus ==
  CASE cstate = "exited" -> [kind |-> "Exited", sig |-> "none", ip |-> 0]
    [] cstate = "killed" -> [kind |-> "Signaled", sig |-> "SIGKILL", ip |-> 0]
    [] OTHER             -> [kind |-> "Stopped", sig |-> csig, ip |-> ip]

\* a reaped child is gone, and its registers and memory with it
Reaped ==
  /\ cstate' = "reaped"
  /\ cmode' = "none"
  /\ csig' = "none"
  /\ ip' = 0
  /\ mem' = OrigText
  /\ observed' = FALSE
  /\ lastExec' = NoExec

\* the child after the wait: an ended child is reaped, a stop is observed
Waited ==
  /\ unwaited' = FALSE
  /\ UNCHANGED signals
  /\ IF cstate = "stopped"
     THEN observed' = TRUE /\ UNCHANGED << cstate, cmode, csig, ip, mem, lastExec >>
     ELSE Reaped

(***************************************************************************)
(* A failed unwrap, or an Err that reaches the unwrap of Debugger::run,    *)
(* panics the debugger: the session is over.                               *)
(***************************************************************************)
Panic ==
  /\ pc' = "panicked"
  /\ UNCHANGED << cmd, inferior, registries, locals, child, unwaited >>

(***************************************************************************)
(* Inferior::new after a successful spawn: the child is stopped at its     *)
(* exec, its text is the target's, and every registry key is patched; a    *)
(* failed patch is reported and skipped.                                   *)
(***************************************************************************)
\* mutant: the patch is made but the byte it returns is not recorded
RECURSIVE InstallAll_unrecorded(_, _, _)
InstallAll_unrecorded(keys, m, reg) ==
  IF keys = {} THEN [mem |-> m, breakpoints |-> reg]
  ELSE LET bp == CHOOSE k \in keys : TRUE
           w  == write_byte(m, TRUE, bp, TRAP)
       IN  InstallAll_unrecorded(keys \ {bp}, IF w.ok THEN w.mem ELSE m, reg)

\* mutant: an address whose patch fails is taken out of the registry
RECURSIVE InstallAll_drops_failed(_, _, _)
InstallAll_drops_failed(keys, m, reg) ==
  IF keys = {} THEN [mem |-> m, breakpoints |-> reg]
  ELSE LET bp == CHOOSE k \in keys : TRUE
           w  == write_byte(m, TRUE, bp, TRAP)
       IN  IF w.ok
           THEN InstallAll_drops_failed(keys \ {bp}, w.mem, Insert(reg, bp, w.ret))
           ELSE InstallAll_drops_failed(keys \ {bp}, m,
                                        [a \in (DOMAIN reg) \ {bp} |-> reg[a]])

RECURSIVE InstallAll(_, _, _)
InstallAll(keys, m, reg) ==
  IF keys = {} THEN [mem |-> m, breakpoints |-> reg]
  ELSE LET bp == CHOOSE k \in keys : TRUE
           w  == write_byte(m, TRUE, bp, TRAP)
       IN  IF w.ok
           THEN InstallAll(keys \ {bp}, w.mem, Insert(reg, bp, w.ret))
           ELSE InstallAll(keys \ {bp}, m, reg)

\* mutant: the spawned child is left unpatched
Inferior_new_unpatched(bps) == [mem |-> OrigText, breakpoints |-> bps]

Inferior_new(bps) == InstallAll(DOMAIN bps, OrigText, bps)

\* Inferior::kill on a child not yet reaped: SIGKILL, then wait reaps it
Killable == cstate \in {"stopped", "running", "exited", "killed"}

\* what the wait of Inferior::kill returns: the end of the child
KillStatus ==
  IF cstate = "exited" THEN [kind |-> "Exited", sig |-> "none", ip |-> 0]
  ELSE [kind |-> "Signaled", sig |-> "SIGKILL", ip |-> 0]

(***************************************************************************)
(* Debugger::run, one action per command arm.                              *)
(***************************************************************************)
CmdQuit ==
  /\ pc = "prompt"
  /\ IF inferior /\ ~Killable
     THEN Panic
     ELSE /\ pc' = "quit"
          /\ inferior' = FALSE
          /\ IF inferior THEN Reaped ELSE UNCHANGED << cstate, cmode, csig, ip, mem, observed, lastExec >>
          /\ status' = IF inferior THEN KillStatus ELSE status
          /\ UNCHANGED << cmd, registries, rip, line_number, took, calls, files, walk, unwaited, signals >>

\* mutant: a spawn empties the pending-step registry
CmdRun_clears_step_points(spawned) ==
  /\ pc = "prompt"
  /\ IF inferior /\ ~Killable
     THEN Panic
     ELSE IF spawned
     THEN LET new == Inferior_new(breakpoints)
          IN  /\ pc' = "cr_getregs"
              /\ cmd' = "run"
              /\ inferior' = TRUE
              /\ breakpoints' = new.breakpoints
              /\ mem' = new.mem
              /\ cstate' = "stopped"
              /\ cmode' = "none"
              /\ csig' = "SIGTRAP"
              /\ ip' = Target.entry
              /\ observed' = FALSE
              /\ unwaited' = FALSE
              /\ lastExec' = NoExec
              /\ status' = IF inferior THEN KillStatus ELSE status
              /\ step_over_points' = Empty
              /\ UNCHANGED << rip, line_number, took, calls, files, walk, signals >>
     ELSE /\ pc' = "prompt"
          /\ inferior' = FALSE
          /\ IF inferior THEN Reaped ELSE UNCHANGED << cstate, cmode, csig, ip, mem, observed, lastExec >>
          /\ UNCHANGED << cmd, registries, locals, unwaited, signals >>

CmdRun(spawned) ==
  /\ pc = "prompt"
  /\ IF inferior /\ ~Killable
     THEN Panic
     ELSE IF spawned
     THEN LET new == Inferior_new(breakpoints)
          IN  /\ pc' = "cr_getregs"
              /\ cmd' = "run"
              /\ inferior' = TRUE
              /\ breakpoints' = new.breakpoints
              /\ mem' = new.mem
              /\ cstate' = "stopped"
              /\ cmode' = "none"
              /\ csig' = "SIGTRAP"
              /\ ip' = Target.entry
              /\ observed' = FALSE
              /\ unwaited' = FALSE
              /\ lastExec' = NoExec
              /\ status' = IF inferior THEN KillStatus ELSE status
              /\ UNCHANGED << step_over_points, rip, line_number, took, calls, files, walk, signals >>
     ELSE /\ pc' = "prompt"
          /\ inferior' = FALSE
          /\ IF inferior THEN Reaped ELSE UNCHANGED << cstate, cmode, csig, ip, mem, observed, lastExec >>
          /\ UNCHANGED << cmd, registries, locals, unwaited, signals >>

\* with no inferior the arm prints its error and the loop goes on
CmdContinue ==
  /\ pc = "prompt"
  /\ pc' = IF inferior THEN "cr_getregs" ELSE "prompt"
  /\ cmd' = IF inferior THEN "continue" ELSE cmd
  /\ UNCHANGED << inferior, registries, locals, child, unwaited >>

CmdStep ==
  /\ pc = "prompt"
  /\ pc' = IF inferior THEN "so_getregs" ELSE "prompt"
  /\ cmd' = IF inferior THEN "step" ELSE cmd
  /\ UNCHANGED << inferior, registries, locals, child, unwaited >>

\* Inferior::print_backtrace: getregs, then one frame per turn of the loop;
\* the walk ends at main or where no function is found, and every address
\* of the target's text is in main or in no function, so the walk ends at
\* its first frame and reads no stack word
CmdBacktrace ==
  /\ pc = "prompt"
  /\ IF inferior /\ ~Stopped
     THEN Panic
     ELSE /\ LET _func == get_function_from_addr(ip)
             IN  ~_func.found \/ _func.name = << "m", "a", "i", "n" >>
          /\ UNCHANGED vars

\* get_next_command on a line from_tokens does not turn into a command:
\* "Unrecognized command." and the next line is read, or the panic of
\* from_tokens ends the debugger
CmdMalformed(tokens) ==
  /\ pc = "prompt"
  /\ IF from_tokens(tokens).kind = "Panic"
     THEN /\ pc' = "panicked"
          /\ cmd' = "break"
          /\ UNCHANGED << inferior, registries, locals, child, unwaited >>
     ELSE /\ from_tokens(tokens).kind = "None"
          /\ UNCHANGED vars

\* mutant: the live break records the address although its patch failed
CmdBreak_inserts_failed(localtion) ==
  /\ pc = "prompt"
  /\ pc' = "prompt"
  /\ from_tokens(<< "break", localtion >>).kind = "Breakpoint"
  /\ LET loc == ResolveLocation(localtion)
     IN  IF ~loc.ok
         THEN UNCHANGED << registries, mem >>
         ELSE IF inferior
         THEN LET w == write_byte(mem, Stopped, loc.addr, TRAP)
              IN  IF w.ok
                  THEN /\ breakpoints' = Insert(breakpoints, loc.addr, w.ret)
                       /\ mem' = w.mem
                       /\ UNCHANGED step_over_points
                  ELSE /\ breakpoints' = Insert(breakpoints, loc.addr, w.ret)
                       /\ UNCHANGED << step_over_points, mem >>
         ELSE /\ breakpoints' = Insert(breakpoints, loc.addr, SENTINEL)
              /\ UNCHANGED << step_over_points, mem >>
  /\ UNCHANGED << cmd, inferior, locals, cstate, cmode, csig, ip, observed,
                  unwaited, lastExec, signals >>

CmdBreak(localtion) ==
  /\ pc = "prompt"
  /\ pc' = "prompt"
  /\ from_tokens(<< "break", localtion >>).kind = "Breakpoint"
  /\ LET loc == ResolveLocation(localtion)
     IN  IF ~loc.ok
         THEN UNCHANGED << registries, mem >>
         ELSE IF inferior
         THEN LET w == write_byte(mem, Stopped, loc.addr, TRAP)
              IN  IF w.ok
                  THEN /\ breakpoints' = Insert(breakpoints, loc.addr, w.ret)
                       /\ mem' = w.mem
                       /\ UNCHANGED step_over_points
                  ELSE UNCHANGED << registries, mem >>
         ELSE /\ breakpoints' = Insert(breakpoints, loc.addr, SENTINEL)
              /\ UNCHANGED << step_over_points, mem >>
  /\ UNCHANGED << cmd, inferior, locals, cstate, cmode, csig, ip, observed,
                  unwaited, lastExec, signals >>

\* mutant: the arms keep the handle whatever Status came back
Report_keeps_handle ==
  /\ pc = "report"
  /\ pc' = "prompt"
  /\ cmd' = "none"
  /\ inferior' = TRUE
  /\ rip' = 0
  /\ line_number' = 0
  /\ status' = NoStatus
  /\ took' = "none"
  /\ UNCHANGED << registries, child, unwaited, calls, files, walk >>

\* mutant: the arms drop the handle whatever Status came back
Report_drops_handle ==
  /\ pc = "report"
  /\ pc' = "prompt"
  /\ cmd' = "none"
  /\ inferior' = FALSE
  /\ rip' = 0
  /\ line_number' = 0
  /\ status' = NoStatus
  /\ took' = "none"
  /\ UNCHANGED << registries, child, unwaited, calls, files, walk >>

\* the match on the Status that continue_run or step_over returned; the
\* loop then comes round to the next command
Report ==
  /\ pc = "report"
  /\ pc' = "prompt"
  /\ cmd' = "none"
  /\ inferior' = (status.kind = "Stopped")
  /\ rip' = 0
  /\ line_number' = 0
  /\ status' = NoStatus
  /\ took' = "none"
  /\ UNCHANGED << registries, child, unwaited, calls, files, walk >>

(***************************************************************************)
(* Inferior::continue_run, one action per ptrace call.                     *)
(***************************************************************************)
CrGetregs ==
  /\ pc = "cr_getregs"
  /\ IF ~Stopped THEN Panic
     ELSE /\ rip' = ip
          /\ took' = IF (ip - 1) \in DOMAIN breakpoints THEN "bp" ELSE "none"
          /\ pc' = IF (ip - 1) \in DOMAIN breakpoints THEN "cr_restore" ELSE "cr_cont"
          /\ UNCHANGED << cmd, inferior, registries, line_number, status, calls, files,
                          walk, child, unwaited >>

CrRestore ==
  /\ pc = "cr_restore"
  /\ LET w == write_byte(mem, Stopped, rip - 1, breakpoints[rip - 1])
     IN  IF ~w.ok THEN Panic
         ELSE /\ mem' = w.mem
              /\ pc' = "cr_setregs"
              /\ UNCHANGED << cmd, inferior, registries, locals, cstate, cmode,
                              csig, ip, observed, unwaited, lastExec, signals >>

CrSetregs ==
  /\ pc = "cr_setregs"
  /\ IF ~Stopped THEN Panic
     ELSE /\ ip' = rip - 1
          /\ pc' = "cr_step"
          /\ UNCHANGED << cmd, inferior, registries, locals, cstate, cmode,
                          csig, mem, observed, unwaited, lastExec, signals >>

CrStep ==
  /\ pc = "cr_step"
  /\ IF ~Stopped THEN Panic
     ELSE /\ cstate' = "running"
          /\ cmode' = "step"
          /\ unwaited' = TRUE
          /\ pc' = "cr_wait_step"
          /\ UNCHANGED << cmd, inferior, registries, locals, csig, ip, mem,
                          observed, lastExec, signals >>

\* mutant: the re-arm follows the wait whatever Status it returned
CrWaitStep_rearms_dead ==
  /\ pc = "cr_wait_step"
  /\ Waitable
  /\ status' = WaitStatus
  /\ Waited
  /\ pc' = "cr_rearm"
  /\ UNCHANGED << cmd, inferior, registries, rip, line_number, took, calls, files, walk >>

CrWaitStep ==
  /\ pc = "cr_wait_step"
  /\ Waitable
  /\ status' = WaitStatus
  /\ Waited
  /\ pc' = IF WaitStatus.kind = "Stopped" THEN "cr_rearm" ELSE "report"
  /\ UNCHANGED << cmd, inferior, registries, rip, line_number, took, calls, files, walk >>

\* mutant: the re-arm after the single-step is left out
CrRearm_skipped ==
  /\ pc = "cr_rearm"
  /\ pc' = "cr_cont"
  /\ UNCHANGED << cmd, inferior, registries, locals, child, unwaited >>

CrRearm ==
  /\ pc = "cr_rearm"
  /\ LET w == write_byte(mem, Stopped, rip - 1, TRAP)
     IN  IF ~w.ok THEN Panic
         ELSE /\ mem' = w.mem
              /\ pc' = "cr_cont"
              /\ UNCHANGED << cmd, inferior, registries, locals, cstate, cmode,
                              csig, ip, observed, unwaited, lastExec, signals >>

CrCont ==
  /\ pc = "cr_cont"
  /\ IF ~Stopped THEN Panic
     ELSE /\ cstate' = "running"
          /\ cmode' = "cont"
          /\ unwaited' = TRUE
          /\ pc' = "cr_wait"
          /\ UNCHANGED << cmd, inferior, registries, locals, csig, ip, mem,
                          observed, lastExec, signals >>

CrWait ==
  /\ pc = "cr_wait"
  /\ Waitable
  /\ status' = WaitStatus
  /\ Waited
  /\ pc' = "report"
  /\ UNCHANGED << cmd, inferior, registries, rip, line_number, took, calls, files, walk >>

(***************************************************************************)
(* Inferior::step_over, one action per ptrace call.                        *)
(***************************************************************************)
SoGetregs ==
  /\ pc = "so_getregs"
  /\ LET line_object == get_line_from_addr(ip)
     IN  IF ~Stopped \/ ~line_object.found THEN Panic
         ELSE /\ rip' = ip
              /\ line_number' = line_object.number
              /\ took' = IF (ip - 1) \in DOMAIN breakpoints THEN "bp"
                         ELSE IF (ip - 1) \in DOMAIN step_over_points THEN "sp"
                         ELSE "none"
              /\ pc' = IF (ip - 1) \in DOMAIN breakpoints THEN "so_bp_restore"
                       ELSE IF (ip - 1) \in DOMAIN step_over_points THEN "so_sp_restore"
                       ELSE "so_install"
              /\ UNCHANGED << cmd, inferior, registries, status, calls, files, walk, child, unwaited >>

SoBpRestore ==
  /\ pc = "so_bp_restore"
  /\ LET w == write_byte(mem, Stopped, rip - 1, breakpoints[rip - 1])
     IN  IF ~w.ok THEN Panic
         ELSE /\ mem' = w.mem
              /\ pc' = "so_bp_setregs"
              /\ UNCHANGED << cmd, inferior, registries, locals, cstate, cmode,
                              csig, ip, observed, unwaited, lastExec, signals >>

SoBpSetregs ==
  /\ pc = "so_bp_setregs"
  /\ IF ~Stopped THEN Panic
     ELSE /\ ip' = rip - 1
          /\ pc' = "so_bp_step"
          /\ UNCHANGED << cmd, inferior, registries, locals, cstate, cmode,
                          csig, mem, observed, unwaited, lastExec, signals >>

SoBpStep ==
  /\ pc = "so_bp_step"
  /\ IF ~Stopped THEN Panic
     ELSE /\ cstate' = "running"
          /\ cmode' = "step"
          /\ unwaited' = TRUE
          /\ pc' = "so_bp_wait_step"
          /\ UNCHANGED << cmd, inferior, registries, locals, csig, ip, mem,
                          observed, lastExec, signals >>

SoBpWaitStep ==
  /\ pc = "so_bp_wait_step"
  /\ Waitable
  /\ status' = WaitStatus
  /\ Waited
  /\ pc' = IF WaitStatus.kind = "Stopped" THEN "so_bp_rearm" ELSE "report"
  /\ UNCHANGED << cmd, inferior, registries, rip, line_number, took, calls, files, walk >>

\* mutant: step_over leaves the breakpoint unarmed after its single-step
SoBpRearm_skipped ==
  /\ pc = "so_bp_rearm"
  /\ pc' = "so_install"
  /\ UNCHANGED << cmd, inferior, registries, locals, child, unwaited >>

SoBpRearm ==
  /\ pc = "so_bp_rearm"
  /\ LET w == write_byte(mem, Stopped, rip - 1, TRAP)
     IN  IF ~w.ok THEN Panic
         ELSE /\ mem' = w.mem
              /\ pc' = "so_install"
              /\ UNCHANGED << cmd, inferior, registries, locals, cstate, cmode,
                              csig, ip, observed, unwaited, lastExec, signals >>

SoSpRestore ==
  /\ pc = "so_sp_restore"
  /\ LET w == write_byte(mem, Stopped, rip - 1, step_over_points[rip - 1])
     IN  IF ~w.ok THEN Panic
         ELSE /\ mem' = w.mem
              /\ pc' = "so_sp_setregs"
              /\ UNCHANGED << cmd, inferior, registries, locals, cstate, cmode,
                              csig, ip, observed, unwaited, lastExec, signals >>

SoSpSetregs ==
  /\ pc = "so_sp_setregs"
  /\ IF ~Stopped THEN Panic
     ELSE /\ ip' = rip - 1
          /\ pc' = "so_sp_step"
          /\ UNCHANGED << cmd, inferior, registries, locals, cstate, cmode,
                          csig, mem, observed, unwaited, lastExec, signals >>

\* the single-step of the pending-step branch: no wait follows it
SoSpStep ==
  /\ pc = "so_sp_step"
  /\ IF ~Stopped THEN Panic
     ELSE /\ cstate' = "running"
          /\ cmode' = "step"
          /\ unwaited' = TRUE
          /\ pc' = "so_install"
          /\ UNCHANGED << cmd, inferior, registries, locals, csig, ip, mem,
                          observed, lastExec, signals >>

\* mutant: the next line's step point is never installed
SoInstall_skipped ==
  /\ pc = "so_install"
  /\ pc' = "so_cont"
  /\ UNCHANGED << cmd, inferior, registries, locals, child, unwaited >>

\* mutant: the trap of the next line is written but not recorded
SoInstall_unrecorded ==
  /\ pc = "so_install"
  /\ LET next_addr == get_addr_for_line(line_number + 1)
         w         == write_byte(mem, Stopped, next_addr.address, TRAP)
     IN  IF ~next_addr.found
         THEN /\ pc' = "so_cont"
              /\ UNCHANGED << cmd, inferior, registries, locals, child, unwaited >>
         ELSE IF ~w.ok THEN Panic
         ELSE /\ mem' = w.mem
              /\ pc' = "so_cont"
              /\ UNCHANGED << cmd, inferior, registries, locals, cstate, cmode,
                              csig, ip, observed, unwaited, lastExec, signals >>

\* mutant: with no next line the trap goes on the current line
SoInstall_traps_current_line ==
  /\ pc = "so_install"
  /\ LET next_addr == get_addr_for_line(line_number + 1)
         addr      == IF next_addr.found THEN next_addr.address
                      ELSE get_addr_for_line(line_number).address
         w         == write_byte(mem, Stopped, addr, TRAP)
     IN  IF ~w.ok THEN Panic
         ELSE /\ mem' = w.mem
              /\ step_over_points' = Insert(step_over_points, addr, w.ret)
              /\ pc' = "so_cont"
              /\ UNCHANGED << cmd, inferior, breakpoints, locals, cstate, cmode,
                              csig, ip, observed, unwaited, lastExec, signals >>

\* next_addr = get_addr_for_line(None, line_object.number + 1), and its trap
SoInstall ==
  /\ pc = "so_install"
  /\ LET next_addr == get_addr_for_line(line_number + 1)
         w         == write_byte(mem, Stopped, next_addr.address, TRAP)
     IN  IF ~next_addr.found
         THEN /\ pc' = "so_cont"
              /\ UNCHANGED << cmd, inferior, registries, locals, child, unwaited >>
         ELSE IF ~w.ok THEN Panic
         ELSE /\ mem' = w.mem
              /\ step_over_points' = Insert(step_over_points, next_addr.address, w.ret)
              /\ pc' = "so_cont"
              /\ UNCHANGED << cmd, inferior, breakpoints, locals, cstate, cmode,
                              csig, ip, observed, unwaited, lastExec, signals >>

SoCont ==
  /\ pc = "so_cont"
  /\ IF ~Stopped THEN Panic
     ELSE /\ cstate' = "running"
          /\ cmode' = "cont"
          /\ unwaited' = TRUE
          /\ pc' = "so_wait"
          /\ UNCHANGED << cmd, inferior, registries, locals, csig, ip, mem,
                          observed, lastExec, signals >>

SoWait ==
  /\ pc = "so_wait"
  /\ Waitable
  /\ status' = WaitStatus
  /\ Waited
  /\ pc' = "report"
  /\ UNCHANGED << cmd, inferior, registries, rip, line_number, took, calls, files, walk >>

Next ==
  \/ CmdQuit
  \/ \E spawned \in BOOLEAN : CmdRun(spawned)
  \/ CmdContinue
  \/ CmdStep
  \/ \E localtion \in BreakLocations : CmdBreak(localtion)
  \/ CmdBacktrace
  \/ \E tokens \in MalformedLines : CmdMalformed(tokens)
  \/ Report
  \/ CrGetregs \/ CrRestore \/ CrSetregs \/ CrStep \/ CrWaitStep \/ CrRearm
  \/ CrCont \/ CrWait
  \/ SoGetregs
  \/ SoBpRestore \/ SoBpSetregs \/ SoBpStep \/ SoBpWaitStep \/ SoBpRearm
  \/ SoSpRestore \/ SoSpSetregs \/ SoSpStep
  \/ SoInstall \/ SoCont \/ SoWait
  \/ ChildTrap \/ ChildExec \/ ChildExit \/ ChildFault \/ ChildSignal \/ ChildKilled

Spec == Init /\ [][Next]_vars

(***************************************************************************)
(* The session of a user who has typed `break 4` before anything else: the *)
(* registry holds the address of the last line, where the child's exit     *)
(* instruction is, so that crossing the breakpoint ends the child.         *)
(***************************************************************************)
InitExitBreak ==
  /\ pc = "prompt"
  /\ cmd = "none"
  /\ inferior = FALSE
  /\ breakpoints = Insert(Empty, ResolveLocation(<< "4" >>).addr, SENTINEL)
  /\ step_over_points = Empty
  /\ rip = 0
  /\ line_number = 0
  /\ status = NoStatus
  /\ took = "none"
  /\ cstate = "none"
  /\ cmode = "none"
  /\ csig = "none"
  /\ ip = 0
  /\ mem = OrigText
  /\ observed = FALSE
  /\ unwaited = FALSE
  /\ lastExec = NoExec
  /\ signals = 0
  /\ calls = << >>
  /\ files = TargetFiles
  /\ fp = 0
  /\ rbp = 0
  /\ stack = << >>
  /\ frames = << >>

ExitBreakSpec == InitExitBreak /\ [][Next]_vars

(***************************************************************************)
(* write_byte on its own: a stopped child whose text is one of two         *)
(* memories, and up to MaxCalls calls with any address of the text (and     *)
(* one outside it) and any of a few byte values.                           *)
(***************************************************************************)
TestMemories ==
  { OrigText,
    [a \in TextAddr |-> (a * 37) % 256] }

TestAddrs == TextAddr \cup {24}

TestBytes == {0, 85, TRAP, ByteMask}

InitWriteByte ==
  /\ pc = "write_byte"
  /\ cmd = "none"
  /\ inferior = TRUE
  /\ breakpoints = Empty
  /\ step_over_points = Empty
  /\ rip = 0
  /\ line_number = 0
  /\ status = NoStatus
  /\ took = "none"
  /\ cstate = "stopped"
  /\ cmode = "none"
  /\ csig = "SIGTRAP"
  /\ ip = Target.entry
  /\ mem \in TestMemories
  /\ observed = TRUE
  /\ unwaited = FALSE
  /\ lastExec = NoExec
  /\ signals = 0
  /\ calls = << >>
  /\ files = TargetFiles
  /\ fp = 0
  /\ rbp = 0
  /\ stack = << >>
  /\ frames = << >>

WriteByteCall(addr, val) ==
  /\ pc = "write_byte"
  /\ Len(calls) < MaxCalls
  /\ LET w == write_byte(mem, Stopped, addr, val)
     IN  /\ mem' = w.mem
         /\ calls' = Append(calls, [addr |-> addr, val |-> val, ok |-> w.ok,
                                    ret |-> w.ret, before |-> mem, after |-> w.mem])
  /\ UNCHANGED << pc, cmd, inferior, registries, rip, line_number, status, took,
                  cstate, cmode, csig, ip, observed, unwaited, lastExec, signals,
                  files, walk >>

NextWriteByte == \E addr \in TestAddrs, val \in TestBytes : WriteByteCall(addr, val)

WriteByteSpec == InitWriteByte /\ [][NextWriteByte]_vars

(***************************************************************************)
(* get_addr_for_line on its own: there is no compilation unit, or the      *)
(* lines of the first one are any table of up to MaxRows rows, in any      *)
(* order, and the function is called up to MaxCalls times with no file     *)
(* and line numbers from 0 to past the last.                               *)
(***************************************************************************)
LineRows == [number : 1..MaxLine, address : {10, 13}]

LineTables == UNION { [1..n -> LineRows] : n \in 0..MaxRows }

\* a second compilation unit, whose one row answers every line asked for
OtherUnit == [lines |-> << [number |-> MaxLine + 1, address |-> 16] >>]

\* no compilation unit, one, or one followed by the second
FileLists ==
  { << >> } \cup { << [lines |-> t] >> : t \in LineTables }
            \cup { << [lines |-> t], OtherUnit >> : t \in LineTables }

InitLineTable ==
  /\ pc = "get_addr_for_line"
  /\ cmd = "none"
  /\ inferior = FALSE
  /\ breakpoints = Empty
  /\ step_over_points = Empty
  /\ rip = 0
  /\ line_number = 0
  /\ status = NoStatus
  /\ took = "none"
  /\ cstate = "none"
  /\ cmode = "none"
  /\ csig = "none"
  /\ ip = 0
  /\ mem = OrigText
  /\ observed = FALSE
  /\ unwaited = FALSE
  /\ lastExec = NoExec
  /\ signals = 0
  /\ calls = << >>
  /\ files \in FileLists
  /\ fp = 0
  /\ rbp = 0
  /\ stack = << >>
  /\ frames = << >>

LineCall(n) ==
  /\ pc = "get_addr_for_line"
  /\ Len(calls) < MaxCalls
  /\ LET r == get_addr_for_line_files(files, n)
     IN  calls' = Append(calls, [n |-> n, found |-> r.found, address |-> r.address])
  /\ UNCHANGED << pc, cmd, inferior, registries, rip, line_number, status, took,
                  child, unwaited, files, walk >>

NextLineTable == \E n \in 0..(MaxLine + 1) : LineCall(n)

LineTableSpec == InitLineTable /\ [][NextLineTable]_vars

(***************************************************************************)
(* print_backtrace on its own: a stopped child of the program hello, whose *)
(* main calls greet.  Its stack holds up to MaxFrames frames of two words, *)
(* the saved frame pointer at fp and the return address at fp + 8; the     *)
(* registers and the stack words are any values, so the chain may reach    *)
(* main, run into code with no function, end in a null frame pointer or    *)
(* loop.                                                                   *)
(***************************************************************************)
\* the lowest address of the child's stack
StackBase == 32

Main == << "m", "a", "i", "n" >>

\* the functions of hello; the addresses below 10 belong to no function
HelloFunctions ==
  << [name |-> << "g", "r", "e", "e", "t" >>, address |-> 10, text_length |-> 3],
     [name |-> Main, address |-> 13, text_length |-> 4] >>

\* code addresses: in no function, in greet, in main
CodeAddrs == {9, 11, 14}

FrameAddrs == { StackBase + 2 * WordSize * k : k \in 0..(MaxFrames - 1) }

StackWords == FrameAddrs \cup { f + WordSize : f \in FrameAddrs }

\* a stack: every frame holds a saved frame pointer (0 is null) and a
\* return address
Stacks ==
  { st \in [StackWords -> FrameAddrs \cup CodeAddrs \cup {0}] :
      \A f \in FrameAddrs : /\ st[f] \in FrameAddrs \cup {0}
                            /\ st[f + WordSize] \in CodeAddrs }

\* ptrace::read of one word of the stopped child
ptrace_read(st, addr) ==
  IF addr \in DOMAIN st THEN [ok |-> TRUE, word |-> st[addr]]
  ELSE [ok |-> FALSE, word |-> 0]

\* the frame line print_backtrace prints for rip: the function and the
\* line, each replaced where the Address Mapper has none
UnknownFunc == << "unknown func" >>
NoSourceLine == 0

FrameLine(addr) ==
  LET _line == get_line_from_addr(addr)
      _func == get_function_from_addr_in(HelloFunctions, addr)
  IN  [func |-> IF _func.found THEN _func.name ELSE UnknownFunc,
       line |-> IF _line.found THEN _line.number ELSE NoSourceLine]

InitBacktrace ==
  /\ pc = "bt_getregs"
  /\ cmd = "backtrace"
  /\ inferior = TRUE
  /\ breakpoints = Empty
  /\ step_over_points = Empty
  /\ rip = 0
  /\ line_number = 0
  /\ status = NoStatus
  /\ took = "none"
  /\ cstate = "stopped"
  /\ cmode = "none"
  /\ csig = "SIGTRAP"
  /\ ip \in CodeAddrs
  /\ mem = OrigText
  /\ observed = TRUE
  /\ unwaited = FALSE
  /\ lastExec = NoExec
  /\ signals = 0
  /\ calls = << >>
  /\ files = TargetFiles
  /\ fp \in FrameAddrs \cup {0}
  /\ rbp = 0
  /\ stack \in Stacks
  /\ frames = << >>

\* let regs = ptrace::getregs(self.pid())?
BtGetregs ==
  /\ pc = "bt_getregs"
  /\ IF ~Stopped THEN Panic
     ELSE /\ rip' = ip
          /\ rbp' = fp
          /\ pc' = "bt_frame"
          /\ UNCHANGED << cmd, inferior, registries, line_number, status, took,
                          calls, files, fp, stack, frames, child, unwaited >>

\* mutant: the walk does not end at main
BtFrame_past_main ==
  /\ pc = "bt_frame"
  /\ Len(frames) <= MaxFrames + 1
  /\ frames' = Append(frames, FrameLine(rip))
  /\ pc' = IF get_function_from_addr_in(HelloFunctions, rip).found
           THEN "bt_read_ip" ELSE "bt_done"
  /\ UNCHANGED << cmd, inferior, registries, rip, line_number, status, took,
                  calls, files, fp, rbp, stack, child, unwaited >>

\* one turn of the loop up to its breaks: the frame line is printed, and the
\* walk ends at main or where no function is found.  A walk that goes round
\* a loop of frames is followed for MaxFrames + 2 frames.
BtFrame ==
  /\ pc = "bt_frame"
  /\ Len(frames) <= MaxFrames + 1
  /\ frames' = Append(frames, FrameLine(rip))
  /\ LET _func == get_function_from_addr_in(HelloFunctions, rip)
     IN  pc' = IF _func.found /\ _func.name # Main THEN "bt_read_ip" ELSE "bt_done"
  /\ UNCHANGED << cmd, inferior, registries, rip, line_number, status, took,
                  calls, files, fp, rbp, stack, child, unwaited >>

\* mutant: the return address is read at rbp, not at rbp + 8
BtReadIp_at_rbp ==
  /\ pc = "bt_read_ip"
  /\ LET r == ptrace_read(stack, rbp)
     IN  IF ~r.ok THEN Panic
         ELSE /\ rip' = r.word
              /\ pc' = "bt_read_fp"
              /\ UNCHANGED << cmd, inferior, registries, line_number, status, took,
                              calls, files, walk, child, unwaited >>

\* rip = ptrace::read(pid, rbp + 8)?: an Err is returned to the unwrap of
\* the Backtrace arm
BtReadIp ==
  /\ pc = "bt_read_ip"
  /\ LET r == ptrace_read(stack, rbp + WordSize)
     IN  IF ~r.ok THEN Panic
         ELSE /\ rip' = r.word
              /\ pc' = "bt_read_fp"
              /\ UNCHANGED << cmd, inferior, registries, line_number, status, took,
                              calls, files, walk, child, unwaited >>

\* rbp = ptrace::read(pid, rbp)?
BtReadFp ==
  /\ pc = "bt_read_fp"
  /\ LET r == ptrace_read(stack, rbp)
     IN  IF ~r.ok THEN Panic
         ELSE /\ rbp' = r.word
              /\ pc' = "bt_frame"
              /\ UNCHANGED << cmd, inferior, registries, rip, line_number, status,
                              took, calls, files, fp, stack, frames, child,
                              unwaited >>

NextBacktrace == BtGetregs \/ BtFrame \/ BtReadIp \/ BtReadFp

\* the walk is one sequential call: it goes on while it has a step to take
BacktraceSpec == InitBacktrace /\ [][NextBacktrace]_vars /\ WF_vars(NextBacktrace)

(***************************************************************************)
(* Properties.                                                             *)
(***************************************************************************)
ContinueRunPcs ==
  { "cr_getregs", "cr_restore", "cr_setregs", "cr_step", "cr_wait_step",
    "cr_rearm", "cr_cont", "cr_wait" }

StepOverPcs ==
  { "so_getregs", "so_bp_restore", "so_bp_setregs", "so_bp_step",
    "so_bp_wait_step", "so_bp_rearm", "so_sp_restore", "so_sp_setregs",
    "so_sp_step", "so_install", "so_cont", "so_wait" }

\* the registry addresses the current child holds a patch for
Patched == { a \in DOMAIN breakpoints : Mapped(align_addr_to_word(a)) }

\* C1 (breakpoint idempotence): when continue_run, entered with ip - 1 in the
\* breakpoint registry, comes to its cont after a single-step that ended in a
\* stop, the byte at ip - 1 is 0xCC again; and no step of continue_run
\* changes the registry, so the saved byte is the one it had before the call.
C1_BreakpointIdempotence ==
  /\ [](pc = "cr_cont" /\ took = "bp" => mem[rip - 1] = TRAP)
  /\ [][(pc \in ContinueRunPcs) => (breakpoints' = breakpoints)]_vars

\* C1 witness: continue_run has crossed a breakpoint whose saved byte is the
\* original opcode and stands at its cont with the trap back in place.
C1_Witness ==
  /\ pc = "cr_cont" /\ took = "bp" /\ cmd = "continue"
  /\ lastExec = [addr |-> rip - 1, trapped |-> FALSE, mode |-> "step"]
  /\ breakpoints[rip - 1] = OrigText[rip - 1]
  /\ mem[rip - 1] = TRAP

\* the child is about to be resumed with cont, and the cont will succeed
AtCont == pc \in {"cr_cont", "so_cont"} /\ Stopped

\* C2: every time the child is resumed with cont (from run, continue or
\* step), every breakpoint-registry address patched on the current inferior
\* holds 0xCC in the child's text.
C2_BreakpointsArmedAtCont ==
  AtCont => \A a \in Patched : mem[a] = TRAP

\* C2 witness: a cont issued by step_over after crossing one of two patched
\* breakpoints.
C2_Witness ==
  /\ AtCont /\ pc = "so_cont" /\ took = "bp"
  /\ Cardinality(Patched) >= 2
  /\ \A a \in Patched : mem[a] = TRAP

\* C3: with a live inferior, between commands, the saved byte of every
\* patched breakpoint-registry entry is the original opcode byte of the text
\* at that address, never the trap byte of an earlier patch.
C3_SavedByteIsOriginal ==
  pc = "prompt" /\ inferior => \A a \in Patched : breakpoints[a] = OrigText[a]

\* the child's last instruction was a trap at a pending-step point that is
\* no user breakpoint
HitPendingStep ==
  /\ lastExec.trapped
  /\ lastExec.addr \in DOMAIN step_over_points
  /\ lastExec.addr \notin DOMAIN breakpoints

\* C4 (step consumes pending points): when step_over returns with the child
\* stopped by the pending-step point it installed at next_addr, that address
\* is absent from the pending-step registry.
C4_StepConsumesPendingPoint ==
  /\ pc = "report" /\ cmd = "step" /\ status.kind = "Stopped"
  /\ get_addr_for_line(line_number + 1).found
  /\ lastExec = [addr |-> get_addr_for_line(line_number + 1).address,
                 trapped |-> TRUE, mode |-> "cont"]
  => get_addr_for_line(line_number + 1).address \notin DOMAIN step_over_points

\* C5: a child stopped at a pending-step point and resumed by continue_run or
\* step_over runs on from the pending-step address itself, with the saved
\* original byte back in place there.
C5_PendingStepInstructionRunsWhole ==
  cstate = "running" /\ HitPendingStep
  => ip = lastExec.addr /\ mem[ip] = OrigText[ip]

\* the debugger is about to issue a ptrace request other than a wait
AtPtraceRequest ==
  \/ pc \in (ContinueRunPcs \cup StepOverPcs)
            \ {"cr_wait_step", "cr_wait", "so_bp_wait_step", "so_wait", "so_install"}
  \/ pc = "so_install" /\ get_addr_for_line(line_number + 1).found

\* C6: after every resume of the child (single-step or cont) a wait is
\* performed before the next ptrace request on the child.
C6_WaitAfterEveryResume ==
  AtPtraceRequest => ~unwaited

\* C9: with a live inferior, between commands, the saved byte of every
\* pending-step entry installed in the child is the original opcode byte of
\* the text at that address, never 0xCC.
C9_PendingSavedByteIsOriginal ==
  pc = "prompt" /\ inferior
  => \A a \in DOMAIN step_over_points :
       mem[a] = TRAP => step_over_points[a] = OrigText[a]

\* two write_byte calls in a row that both succeeded
Consecutive == { i \in 1..(Len(calls) - 1) : calls[i].ok /\ calls[i + 1].ok }

\* C7 (patch reversibility): write_byte(addr, x) followed by
\* write_byte(addr, y) on a stopped child returns x from the second call.
C7_PatchReversibility ==
  \A i \in Consecutive :
    calls[i + 1].addr = calls[i].addr => calls[i + 1].ret = calls[i].val

\* C7 witness: two calls at one address with different values, the first
\* value differing from the byte that was there.
C7_Witness ==
  /\ Len(calls) = 2 /\ 1 \in Consecutive
  /\ calls[2].addr = calls[1].addr
  /\ calls[1].val # calls[2].val
  /\ calls[1].val # calls[1].before[calls[1].addr]
  /\ calls[2].ret = calls[1].val

\* C8 (word granularity transparency): write_byte(a, va) followed by
\* write_byte(b, vb), a and b distinct addresses of one aligned word, leaves
\* byte a at va, byte b at vb and every other byte as it was.
C8_WordGranularityTransparency ==
  \A i \in Consecutive :
    LET a == calls[i].addr
        b == calls[i + 1].addr
    IN  a # b /\ align_addr_to_word(a) = align_addr_to_word(b)
        => /\ calls[i + 1].after[a] = calls[i].val
           /\ calls[i + 1].after[b] = calls[i + 1].val
           /\ \A c \in TextAddr \ {a, b} : calls[i + 1].after[c] = calls[i].before[c]

\* C8 witness: two calls in the word at 16, each changing its byte.
C8_Witness ==
  /\ Len(calls) = 2 /\ 1 \in Consecutive
  /\ calls[1].addr # calls[2].addr
  /\ align_addr_to_word(calls[1].addr) = 16
  /\ align_addr_to_word(calls[2].addr) = 16
  /\ calls[1].val # calls[1].before[calls[1].addr]
  /\ calls[2].val # calls[1].before[calls[2].addr]
  /\ mem[calls[1].addr] = calls[1].val
  /\ mem[calls[2].addr] = calls[2].val

\* the instruction the child executed last ran under the cont issued by run,
\* at a text address of the breakpoint registry
RunReachedBreakpoint ==
  /\ cmd = "run"
  /\ pc \in {"cr_wait", "report"}
  /\ lastExec.mode = "cont"
  /\ lastExec.addr \in (DOMAIN breakpoints) \cap TextAddr

StraightLine(l) ==
  LET from == get_addr_for_line(l).address
      to   == get_addr_for_line(l + 1).address
  IN  \A i \in Target.insns :
        from <= i.at /\ i.at < to => ~i.exits /\ i.next = {i.at + i.len}

\* step_over is returning from a step that began with the child stopped at
\* the user breakpoint at rip - 1; line_number is the line of that stop, the
\* line containing rip (line_object of step_over, and the line the status
\* line of the stop showed); its code runs straight into the next line, and
\* no signal from outside has reached the child
SteppedFromBreakpoint ==
  /\ pc = "report" /\ cmd = "step" /\ took = "bp"
  /\ signals = 0
  /\ get_addr_for_line(line_number + 1).found
  /\ StraightLine(line_number)

\* C11 (S5 Step): with the child stopped at a user breakpoint, the stop on
\* line L in straight-line code and line L+1 resolvable, step returns one
\* stop, the child waits in it, and the line reported for it is strictly
\* greater than L.
C11_StepStopsOnLaterLine ==
  SteppedFromBreakpoint =>
    /\ status.kind = "Stopped"
    /\ cstate = "stopped" /\ observed /\ ~unwaited /\ ip = status.ip
    /\ get_line_from_addr(status.ip).found
    /\ get_line_from_addr(status.ip).number > line_number

\* C11 witness: the step from the breakpoint at main (line 1) has stopped at
\* the step point of line 2
C11_Witness ==
  /\ SteppedFromBreakpoint
  /\ rip = 11 /\ line_number = 1
  /\ status = [kind |-> "Stopped", sig |-> "SIGTRAP", ip |-> 14]
  /\ lastExec = [addr |-> 13, trapped |-> TRUE, mode |-> "cont"]
  /\ 13 \in DOMAIN step_over_points

\* run, continue or step is returning Exited or Signaled
ReturnsEnded == pc = "report" /\ status.kind \in {"Exited", "Signaled"}

\* C12: between commands the session holds an inferior handle only if the
\* child is alive and stopped; a command that returns Exited or Signaled
\* clears the handle before the next command is read, so kill never meets
\* a child that has been reaped.
C12_HandleOnlyForStoppedChild ==
  /\ [](pc = "prompt" /\ inferior => cstate = "stopped" /\ observed /\ Killable)
  /\ [](ReturnsEnded => cstate = "reaped")
  /\ [][ReturnsEnded => (pc' = "prompt" /\ ~inferior')]_vars

\* C12 witness: the child ran to its exit, was reaped, and the session is
\* back at the prompt without a handle
C12_Witness ==
  /\ pc = "prompt" /\ ~inferior
  /\ cstate = "reaped" /\ signals = 0

\* the Run arm has spawned a new child
Spawns == pc = "prompt" /\ pc' = "cr_getregs" /\ cmd' = "run"

\* C13: at most one traced child is alive and unreaped: a child that is
\* not reaped is always the one the handle holds, and a run that finds such
\* a child kills and reaps it (the wait of kill returns its end) before the
\* new child is spawned.
C13_AtMostOneChild ==
  /\ [](Alive /\ ~inferior => ~Killable)
  /\ [][Spawns => (~Killable \/ (inferior /\ status' = KillStatus))]_vars

\* C13 witness: run has just replaced a live inferior; the wait of kill
\* reported the old child's end and the new child sits at its exec stop
C13_Witness ==
  /\ pc = "cr_getregs" /\ cmd = "run" /\ inferior
  /\ status = [kind |-> "Signaled", sig |-> "SIGKILL", ip |-> 0]
  /\ cstate = "stopped" /\ ~observed /\ ip = Target.entry

\* the state Inferior::new leaves: the new child at its exec stop
Spawned == pc = "cr_getregs" /\ cmd = "run"

\* C14: the set of breakpoint-registry addresses never shrinks, and after
\* every successful spawn each registry address that is valid in the new
\* child holds 0xCC in its text, its saved byte being the byte the patch
\* replaced.
C14_RegistrySurvivesAndRepatches ==
  /\ [][(DOMAIN breakpoints) \subseteq (DOMAIN breakpoints')]_vars
  /\ [](Spawned => \A a \in Patched :
                     mem[a] = TRAP /\ breakpoints[a] = OrigText[a])

\* C14 witness: a re-run over a killed inferior has patched two valid
\* addresses of the registry anew
C14_Witness ==
  /\ Spawned
  /\ status.kind = "Signaled"
  /\ Cardinality(Patched) >= 2
  /\ \A a \in Patched : mem[a] = TRAP /\ breakpoints[a] = OrigText[a]

\* C15: user-level errors never terminate the session: a break line with
\* no argument or an unresolvable one, and continue, step or backtrace with
\* no inferior, print a message, leave the registries and the inferior as
\* they were, and the loop reads the next command.
C15_UserErrorsKeepSession ==
  /\ [](pc = "panicked" => cmd # "break")
  /\ [][(pc = "prompt" /\ ~inferior /\ pc' \notin {"quit", "cr_getregs"})
          => (pc' = "prompt" /\ ~inferior'
              /\ step_over_points' = step_over_points
              /\ \A a \in DOMAIN breakpoints :
                   a \in DOMAIN breakpoints' /\ breakpoints'[a] = breakpoints[a])]_vars

\* step_over is invoked on a stopped child whose ip is in no row of the
\* line table
StepWithoutLine ==
  pc = "so_getregs" /\ Stopped /\ ~get_line_from_addr(ip).found

\* C16: when the Address Mapper has no line for the current ip, step_over
\* still resumes the child and returns the status of its next stop or exit:
\* the debugger does not abort.
C16_StepWithoutLineResumes ==
  [][StepWithoutLine => (pc' # "panicked")]_vars

\* a ptrace request of continue_run or step_over is about to be made on a
\* child that is not in a ptrace stop: the request fails
PtraceRequestFails == AtPtraceRequest /\ ~Stopped

\* C17: a ptrace call that fails during run, continue, step or backtrace
\* fails that command only: the debugger stays alive and the command loop
\* reads the next command.
C17_PtraceFailureKeepsSession ==
  [][PtraceRequestFails => (pc' # "panicked")]_vars

\* the registry addresses whose word the child does not map: their patch fails
Unpatchable == { a \in DOMAIN breakpoints : ~Mapped(align_addr_to_word(a)) }

\* C18: during spawn a registry address whose patch fails is skipped: its
\* entry stays with its saved byte unchanged, the other addresses are
\* patched, spawn yields an inferior, and every later spawn meets the
\* address in the registry again.
C18_FailedPatchIsSkipped ==
  [][Spawns =>
       /\ \A a \in Unpatchable :
            a \in DOMAIN breakpoints' /\ breakpoints'[a] = breakpoints[a]
       /\ \A a \in (DOMAIN breakpoints) \ Unpatchable :
            mem'[a] = TRAP /\ breakpoints'[a] = OrigText[a]
       /\ inferior' /\ cstate' = "stopped"]_vars

\* C18 witness: the second spawn of a session whose registry holds an
\* address outside the text beside two valid ones
C18_Witness ==
  /\ Spawned /\ inferior
  /\ status.kind = "Signaled"
  /\ Unpatchable = {24} /\ breakpoints[24] = SENTINEL
  /\ Cardinality(Patched) >= 2
  /\ \A a \in Patched : mem[a] = TRAP

\* a command taken at the prompt with a live inferior, the loop back at the
\* prompt with it
LiveCommand == pc = "prompt" /\ inferior /\ pc' = "prompt" /\ inferior'

\* C19: a break issued while an inferior is live whose write_byte fails
\* inserts nothing into the breakpoint registry, leaves an existing entry
\* for the address as it was, leaves the child's text unchanged, and the
\* loop goes on (the one line that ends the session at this prompt is the
\* break with no argument, which resolves no address).
C19_FailedLiveBreakChangesNothing ==
  /\ [][LiveCommand =>
          /\ \A a \in Unpatchable' :
               a \in DOMAIN breakpoints /\ breakpoints'[a] = breakpoints[a]
          /\ (breakpoints' = breakpoints => mem' = mem)]_vars
  /\ [][(pc = "prompt" /\ inferior /\ Stopped /\ pc' = "panicked")
          => (cmd' = "break" /\ cmd # "break")]_vars

\* C19 witness: the session at the prompt with a live, patched inferior and
\* an address outside the text in the registry from before the run: a break
\* at that address fails and this state is what it leaves
C19_Witness ==
  /\ pc = "prompt" /\ inferior /\ Stopped /\ observed
  /\ Unpatchable = {24} /\ breakpoints[24] = SENTINEL
  /\ Patched # {}
  /\ \A a \in Patched : mem[a] = TRAP

\* File.lines of the first compilation unit (empty where there is none)
lines == IF Len(files) = 0 THEN << >> ELSE files[1].lines

\* pairs of calls for a line number and the next one, both answered
NextLinePairs ==
  { p \in (DOMAIN calls) \X (DOMAIN calls) :
      /\ calls[p[2]].n = calls[p[1]].n + 1
      /\ calls[p[1]].found /\ calls[p[2]].found }

\* the table is recorded in ascending address order
AddressOrdered ==
  \A i, j \in DOMAIN lines : i <= j => lines[i].address <= lines[j].address

\* C20 as stated (line resolution monotonicity): for every line table and
\* every n with line_to_addr(n) and line_to_addr(n+1) both defined,
\* line_to_addr(n) <= line_to_addr(n+1).
C20_LineResolutionMonotone ==
  \A p \in NextLinePairs : calls[p[1]].address <= calls[p[2]].address

\* C20 amended: the same, for the line tables recorded in ascending
\* address order.
C20_MonotoneOnAddressOrderedTables ==
  AddressOrdered =>
    \A p \in NextLinePairs : calls[p[1]].address <= calls[p[2]].address

\* C20 witness: an address-ordered table whose line numbers run backwards,
\* asked for line 1 and then line 2
C20_Witness ==
  /\ AddressOrdered
  /\ lines = << [number |-> 2, address |-> 10], [number |-> 1, address |-> 13] >>
  /\ << 1, 2 >> \in NextLinePairs
  /\ calls[1].n = 1 /\ calls[1].address = 10
  /\ calls[2].n = 2 /\ calls[2].address = 10

\* the rows of the first compilation unit that answer the call c: their
\* number is at or after the line asked for and no row before them is
FirstAtOrAfter(c) ==
  { i \in DOMAIN lines :
      /\ lines[i].number >= c.n
      /\ \A j \in 1..(i - 1) : lines[j].number < c.n }

\* C21: line_to_addr with no file uses the first compilation unit and
\* returns the address of the first recorded row, in table order, whose
\* number is >= the requested line; it returns nothing when there is no
\* compilation unit or no such row (whatever a later unit holds); the row
\* whose address it returns never has a number below the requested line.
C21_FirstLineAtOrAfter ==
  \A k \in DOMAIN calls :
    LET c == calls[k]
    IN  /\ Len(files) = 0 => ~c.found
        /\ (\A i \in DOMAIN lines : lines[i].number < c.n) => ~c.found
        /\ (\E i \in DOMAIN lines : lines[i].number >= c.n)
             => /\ c.found
                /\ \E i \in FirstAtOrAfter(c) :
                     c.address = lines[i].address /\ lines[i].number >= c.n

\* C21 witness: the first unit's table runs backwards, a second unit
\* follows; line 2 resolves to the first row and line 3, which only the
\* second unit holds, to nothing
C21_Witness ==
  /\ files = << [lines |-> << [number |-> 2, address |-> 13],
                              [number |-> 1, address |-> 10] >>],
                OtherUnit >>
  /\ Len(calls) = 2
  /\ calls[1] = [n |-> 2, found |-> TRUE, address |-> 13]
  /\ calls[2] = [n |-> 3, found |-> FALSE, address |-> 0]

\* the k-th frame of the child's frame-pointer chain, the innermost being
\* the first: its ip and fp, the next ip read from fp + 8 and the next fp
\* from fp; not ok where a word of the chain cannot be read
RECURSIVE FrameAt(_)
FrameAt(k) ==
  IF k = 1 THEN [ok |-> TRUE, ip |-> ip, fp |-> fp]
  ELSE LET prev    == FrameAt(k - 1)
           next_ip == ptrace_read(stack, prev.fp + WordSize)
           next_fp == ptrace_read(stack, prev.fp)
       IN  IF prev.ok /\ next_ip.ok /\ next_fp.ok
           THEN [ok |-> TRUE, ip |-> next_ip.word, fp |-> next_fp.word]
           ELSE [ok |-> FALSE, ip |-> 0, fp |-> 0]

InMain(addr) ==
  LET _func == get_function_from_addr_in(HelloFunctions, addr)
  IN  _func.found /\ _func.name = Main

Resolved(addr) == get_function_from_addr_in(HelloFunctions, addr).found

\* the depths at which the chain, without passing one frame twice, holds a
\* frame in main
MainDepths ==
  { k \in 1..(MaxFrames + 1) :
      /\ FrameAt(k).ok
      /\ InMain(FrameAt(k).ip)
      /\ \A i, j \in 1..k : i < j => FrameAt(i).fp # FrameAt(j).fp }

\* the chain is finite, acyclic and reaches a frame in main
WellFormedChain == MainDepths # {}

FirstMainDepth == CHOOSE k \in MainDepths : \A j \in MainDepths : k <= j

\* every frame inside the first frame in main resolves to a function
ResolvedToMain ==
  WellFormedChain /\ \A j \in 1..(FirstMainDepth - 1) : Resolved(FrameAt(j).ip)

\* print_backtrace has returned, the last frame it printed being main's
StoppedAtMain ==
  pc = "bt_done" /\ frames # << >> /\ frames[Len(frames)].func = Main

\* C22 as stated (backtrace termination): for every child whose
\* frame-pointer chain is finite, acyclic and reaches a frame in main,
\* print_backtrace visits a finite number of frames and stops at the frame
\* whose function is main.
C22_BacktraceStopsAtMain ==
  /\ [](WellFormedChain => Len(frames) <= FirstMainDepth)
  /\ (WellFormedChain ~> StoppedAtMain)

\* C22 amended: the same, for the chains whose frames inside main all
\* resolve to a function.
C22_BacktraceStopsAtMainWhenResolved ==
  /\ [](ResolvedToMain => Len(frames) <= FirstMainDepth)
  /\ (ResolvedToMain ~> StoppedAtMain)

\* C22 witness: greet called from greet called from main; the walk printed
\* the three frames and stopped at main
C22_Witness ==
  /\ ResolvedToMain /\ FirstMainDepth = MaxFrames + 1
  /\ StoppedAtMain
  /\ Len(frames) = FirstMainDepth
  /\ \A k \in 1..(Len(frames) - 1) : frames[k].func = << "g", "r", "e", "e", "t" >>

\* the walk ends at a frame of this address
EndsWalk(addr) == InMain(addr) \/ ~Resolved(addr)

\* C23: print_backtrace prints the frames of the frame-pointer chain from
\* the innermost outwards, one line per frame (next ip read from fp + 8,
\* next fp from fp); no frame before the last printed is in main or
\* unresolved, and when the walk has returned the last frame printed is the
\* first frame that is in main or unresolved; nothing is printed after it.
C23_FramesInnermostFirst ==
  /\ \A k \in DOMAIN frames :
       FrameAt(k).ok /\ frames[k] = FrameLine(FrameAt(k).ip)
  /\ \A k \in 1..(Len(frames) - 1) : ~EndsWalk(FrameAt(k).ip)
  /\ pc = "bt_done" => frames # << >> /\ EndsWalk(FrameAt(Len(frames)).ip)
  /\ (frames # << >> /\ EndsWalk(FrameAt(Len(frames)).ip)) => pc = "bt_done"

\* C23 witness (S6): stopped in greet called from main, the backtrace
\* printed greet and then main
C23_Witness ==
  /\ pc = "bt_done"
  /\ ip = 11 /\ FrameAt(2).ok /\ FrameAt(2).ip = 14
  /\ frames = << [func |-> << "g", "r", "e", "e", "t" >>, line |-> 1],
                 [func |-> Main, line |-> 3] >>

\* continue_run was entered with the child stopped by the trap at rip - 1,
\* a user breakpoint
FromBreakpointStop ==
  /\ pc \in ContinueRunPcs /\ took = "bp"
  /\ lastExec.trapped /\ lastExec.addr = rip - 1

\* the steps of continue_run across a breakpoint, each with what it does to
\* the child: restore, rewind, single-step, wait, re-arm, cont, wait
CrOrderKept ==
  /\ (pc = "cr_getregs" /\ took' = "bp") => pc' = "cr_restore"
  /\ (pc = "cr_restore" /\ pc' # "panicked")
       => pc' = "cr_setregs" /\ mem'[rip - 1] = breakpoints[rip - 1] /\ ip' = ip
  /\ (pc = "cr_setregs" /\ pc' # "panicked")
       => pc' = "cr_step" /\ ip' = rip - 1 /\ mem' = mem
  /\ (pc = "cr_step" /\ pc' # "panicked")
       => pc' = "cr_wait_step" /\ cstate' = "running" /\ cmode' = "step"
  /\ (pc = "cr_wait_step" /\ pc' # pc)
       => \/ pc' = "cr_rearm" /\ cstate' = "stopped" /\ observed'
          \/ pc' = "report" /\ status'.kind \in {"Exited", "Signaled"}
  /\ (pc = "cr_rearm" /\ pc' # "panicked")
       => pc' = "cr_cont" /\ mem'[rip - 1] = TRAP /\ ip' = ip
  /\ (pc = "cr_cont" /\ took = "bp" /\ pc' # "panicked")
       => pc' = "cr_wait" /\ cstate' = "running" /\ cmode' = "cont" /\ mem' = mem
  /\ (pc = "cr_wait" /\ pc' # pc) => pc' = "report"

\* the single-step of continue_run is about to run the instruction at the
\* breakpoint address
AtBreakpointStep == FromBreakpointStop /\ pc = "cr_step"

\* the cont of continue_run is about to resume the child past the breakpoint
AtBreakpointCont == FromBreakpointStop /\ pc = "cr_cont"

\* C24: in continue_run from a breakpoint stop the operations on the child
\* happen in the order restore, rewind, single-step, wait, re-arm, cont,
\* wait; the instruction at the breakpoint address is single-stepped with
\* its byte not 0xCC, and the child is resumed with cont only with 0xCC at
\* that address.
C24_RestoreRewindStepRearm ==
  /\ [][CrOrderKept]_vars
  /\ [](AtBreakpointStep => ip = rip - 1 /\ mem[ip] # TRAP)
  /\ [](AtBreakpointCont => mem[rip - 1] = TRAP)

\* the child has ended during the single-step across a user breakpoint and
\* the wait that follows the step has not yet returned
DiesInStep ==
  /\ pc \in {"cr_wait_step", "so_bp_wait_step"}
  /\ cstate \in {"exited", "killed"}

\* the steps that follow the single-step across a user breakpoint
AfterBreakpointStep ==
  /\ took = "bp"
  /\ pc \in {"cr_rearm", "cr_cont", "so_bp_rearm", "so_install", "so_cont"}

\* C25: if the child exits or is killed by a signal during the single-step
\* that continue_run or step_over performs to cross a user breakpoint, the
\* operation returns that Exited or Signaled status at once: the registries
\* are as they were, and the re-arm, the pending-step install and the cont
\* are reached only with the child alive in its stop.
C25_DeathInStepReturnsAtOnce ==
  /\ [][DiesInStep =>
          /\ pc' \in {pc, "report"}
          /\ pc' = "report" =>
               /\ status' = WaitStatus
               /\ status'.kind \in {"Exited", "Signaled"}
               /\ breakpoints' = breakpoints
               /\ step_over_points' = step_over_points]_vars
  /\ [](AfterBreakpointStep => cstate = "stopped" /\ observed)

\* C25 witness: continue from the breakpoint on the exit instruction; the
\* single-step ran the exit and continue_run returned Exited
C25_Witness ==
  /\ pc = "report" /\ cmd = "continue" /\ took = "bp"
  /\ rip - 1 = get_addr_for_line(4).address
  /\ status.kind = "Exited"
  /\ cstate = "reaped"
  /\ step_over_points = Empty

\* step_over is about to resume the child with cont, and the cont will
\* succeed
AtStepOverCont == pc = "so_cont" /\ Stopped

\* C26: in step_over, when ip - 1 is a user breakpoint the byte at ip - 1 is
\* 0xCC again when the child is resumed with cont, and no step of step_over
\* changes the breakpoint registry; when ip - 1 is only a pending-step point
\* the byte at ip - 1 is then the entry's saved byte and not the trap: the
\* point is not re-armed.
C26_RearmOnlyUserBreakpoints ==
  /\ [][(pc \in StepOverPcs) => (breakpoints' = breakpoints)]_vars
  /\ [](AtStepOverCont /\ took = "bp" => mem[rip - 1] = TRAP)
  /\ [](AtStepOverCont /\ took = "sp"
          => mem[rip - 1] = step_over_points[rip - 1] /\ mem[rip - 1] # TRAP)

\* step_over is past its getregs and the line after the current one has no
\* address
AbsentNext ==
  /\ pc \in StepOverPcs \ {"so_getregs"}
  /\ ~get_addr_for_line(line_number + 1).found

\* the stop the child is in was caused by a trap of one of the registries
StoppedByKnownTrap ==
  /\ lastExec.trapped
  /\ lastExec.addr \in (DOMAIN breakpoints) \cup (DOMAIN step_over_points)

\* C27: when line_to_addr(L+1) is absent for the current line L, step_over
\* installs no trap: no step of it changes the pending-step registry or a
\* byte of the live child's text other than the one at ip - 1, the install
\* step goes straight to the cont, the cont resumes the child, and a stop
\* that step_over returns is one at a trap already in a registry or one for
\* a signal.
C27_NoTrapWithoutNextLine ==
  /\ [][AbsentNext =>
          /\ step_over_points' = step_over_points
          /\ breakpoints' = breakpoints
          /\ cstate' # "reaped" => \A a \in TextAddr \ {rip - 1} : mem'[a] = mem[a]
          /\ pc = "so_install" => pc' \in {pc, "so_cont"} /\ mem' = mem
          /\ (pc = "so_cont" /\ Stopped)
               => pc' = "so_wait" /\ cstate' = "running" /\ cmode' = "cont"]_vars
  /\ [](AbsentNext /\ pc = "so_wait" /\ Waitable /\ cstate = "stopped"
          => csig # "SIGTRAP" \/ StoppedByKnownTrap)

\* C27 witness: a step from a signal stop on the last line; nothing was
\* installed and the child ran to its exit
C27_Witness ==
  /\ pc = "report" /\ cmd = "step"
  /\ line_number = 4 /\ ~get_addr_for_line(line_number + 1).found
  /\ status.kind = "Exited"
  /\ step_over_points = Empty

\* the pending-step addresses that are no user breakpoint
OnlyPendingStep == (DOMAIN step_over_points) \ (DOMAIN breakpoints)

\* C28: when run replaces the inferior, or starts one after the previous one
\* died, the pending-step registry is not cleared: every entry is there
\* after the spawn with its saved byte, and the spawn installs no trap for
\* it (the byte at its address in the new child is the original, unless the
\* address is a user breakpoint as well).
C28_PendingStepsSurviveRun ==
  [][Spawns =>
       /\ step_over_points' = step_over_points
       /\ \A a \in OnlyPendingStep' : mem'[a] = OrigText[a]]_vars

\* C28 witness: run has replaced a live inferior that had been stepped; the
\* entry of the old life is in the registry and the new child's text is
\* intact there
C28_Witness ==
  /\ Spawned /\ inferior
  /\ status.kind = "Signaled"
  /\ OnlyPendingStep # {}
  /\ \A a \in OnlyPendingStep :
       step_over_points[a] = OrigText[a] /\ mem[a] = OrigText[a]

\* continue_run or step_over has chosen to restore the byte at rip - 1 and
\* rewind the child; the child is still in the stop that getregs found
TakesRewindBranch == pc \in {"cr_restore", "so_bp_restore", "so_sp_restore"}

\* the child's current stop is the SIGTRAP of the trap byte at address a
StoppedByTrapAt(a) ==
  /\ cstate = "stopped" /\ csig = "SIGTRAP"
  /\ lastExec.trapped /\ lastExec.addr = a

\* C29: continue_run and step_over rewind the child's instruction pointer
\* and rewrite the byte at ip - 1 only when the child's current stop was
\* caused by executing a trap at ip - 1; a stop for another reason (the exec
\* stop, a signal stop, the end of a single-step) whose ip - 1 happens to be
\* a registry address is resumed with ip unchanged.
C29_RewindOnlyAfterTrap ==
  TakesRewindBranch => StoppedByTrapAt(rip - 1)

\* the child of the session is alive
LiveChild == cstate \in {"stopped", "running"}

\* the byte at a is a saved byte of one of the registries
SavedByteOf(a, byte) ==
  \/ a \in DOMAIN breakpoints /\ breakpoints[a] = byte
  \/ a \in DOMAIN step_over_points /\ step_over_points[a] = byte

\* a step that changes the text of the child it leaves alive, other than
\* the spawn of a new child
WritesText == ~Spawns /\ LiveChild /\ LiveChild' /\ mem' # mem

\* C30 (no untracked traps): in every reachable state with a live inferior
\* every address of the child's text whose byte differs from the target's
\* original byte holds 0xCC and is a key of the breakpoint registry or of
\* the pending-step registry; and every byte the debugger writes into the
\* child is 0xCC or the saved byte a registry holds for that address.
C30_NoUntrackedTraps ==
  /\ [](LiveChild =>
          \A a \in TextAddr :
            mem[a] # OrigText[a]
              => /\ mem[a] = TRAP
                 /\ a \in (DOMAIN breakpoints) \cup (DOMAIN step_over_points))
  /\ [][WritesText =>
          \A a \in TextAddr :
            mem'[a] # mem[a] => mem'[a] = TRAP \/ SavedByteOf(a, mem'[a])]_vars

\* C30 witness: between commands, a live child with the trap of a user
\* breakpoint, the trap of a pending-step point, and a pending-step point
\* whose original byte has been written back
C30_Witness ==
  /\ pc = "prompt" /\ inferior /\ Stopped
  /\ \E a \in Patched : mem[a] = TRAP
  /\ \E b \in OnlyPendingStep : mem[b] = TRAP
  /\ \E c \in OnlyPendingStep : mem[c] = OrigText[c] /\ step_over_points[c] = OrigText[c]

====
